---------------------------- MODULE Spec2Model ----------------------------
(***************************************************************************)
(* Model of the tag reconciliation engine of obsidian-frontmatter-sync     *)
(* (src/main.ts): sanitizeTagValue, extractName, synchronizeProperties and *)
(* the handlers that drive it (debounceSyncFrontmatter, syncFrontmatter,   *)
(* syncAllFrontmatter).                                                    *)
(*                                                                         *)
(* A JavaScript string is a sequence of one-character strings, so that     *)
(* split, replace, startsWith and localeCompare are computed character by  *)
(* character.  A frontmatter value is a record tagged with its JavaScript  *)
(* type.                                                                   *)
(***************************************************************************)
EXTENDS Integers, Sequences, FiniteSets

VARIABLES settings, docs, timeout, edits, last, prev

vars == <<settings, docs, timeout, edits, last, prev>>

-----------------------------------------------------------------------------
(* Frontmatter values: undefined (field absent), string, number, boolean,  *)
(* array of scalars.  All records have the same fields.                    *)

Undefined == [k |-> "undefined", s |-> <<>>, n |-> 0, b |-> FALSE, items |-> <<>>]
Str(s) == [k |-> "string", s |-> s, n |-> 0, b |-> FALSE, items |-> <<>>]
Num(n) == [k |-> "number", s |-> <<>>, n |-> n, b |-> FALSE, items |-> <<>>]
Bool(b) == [k |-> "boolean", s |-> <<>>, n |-> 0, b |-> b, items |-> <<>>]
Arr(items) == [k |-> "array", s |-> <<>>, n |-> 0, b |-> FALSE, items |-> items]

-----------------------------------------------------------------------------
(* Character tables.                                                       *)

\* The printable ASCII characters in code-unit order, from U+0020 (the quotes,
\* the grave accent and the backslash stand under names).
AsciiTable == <<" ", "!", "DQUOTE", "#", "$", "%", "&", "QUOTE", "(", ")", "*", "+", ",", "-", ".", "/", "0", "1", "2", "3", "4", "5", "6", "7", "8", "9", ":", ";", "<", "=", ">", "?", "@", "A", "B", "C", "D", "E", "F", "G", "H", "I", "J", "K", "L", "M", "N", "O", "P", "Q", "R", "S", "T", "U", "V", "W", "X", "Y", "Z", "[", "BSLASH", "]", "^", "_", "GRAVE", "a", "b", "c", "d", "e", "f", "g", "h", "i", "j", "k", "l", "m", "n", "o", "p", "q", "r", "s", "t", "u", "v", "w", "x", "y", "z", "{", "|", "}", "~">>

\* The same characters, case folded, in the order of the root collation that
\* String.prototype.localeCompare applies: white space, punctuation, symbols,
\* currency, digits, letters.
CollationTable == <<" ", "_", "-", ",", ";", ":", "!", "?", ".", "QUOTE", "DQUOTE", "(", ")", "[", "]", "{", "}", "@", "*", "/", "BSLASH", "&", "#", "%", "GRAVE", "^", "+", "<", "=", ">", "|", "~", "$", "0", "1", "2", "3", "4", "5", "6", "7", "8", "9", "a", "b", "c", "d", "e", "f", "g", "h", "i", "j", "k", "l", "m", "n", "o", "p", "q", "r", "s", "t", "u", "v", "w", "x", "y", "z">>

UpperCase == <<"A", "B", "C", "D", "E", "F", "G", "H", "I", "J", "K", "L", "M", "N", "O", "P", "Q", "R", "S", "T", "U", "V", "W", "X", "Y", "Z">>
LowerCase == <<"a", "b", "c", "d", "e", "f", "g", "h", "i", "j", "k", "l", "m", "n", "o", "p", "q", "r", "s", "t", "u", "v", "w", "x", "y", "z">>
Digits == <<"0", "1", "2", "3", "4", "5", "6", "7", "8", "9">>

Range(seq) == {seq[i] : i \in 1..Len(seq)}
IndexOf(seq, x) == CHOOSE i \in 1..Len(seq) : seq[i] = x

Chars == Range(AsciiTable)

\* charCodeAt: the UTF-16 code unit of a character.
CharCode == [c \in Chars |-> 31 + IndexOf(AsciiTable, c)]

IsUpper == [c \in Chars |-> c \in Range(UpperCase)]
ToLower == [c \in Chars |-> IF IsUpper[c] THEN LowerCase[IndexOf(UpperCase, c)] ELSE c]

\* Primary collation weight (letters compare without case) and tertiary
\* weight (lower case before upper case).
PrimaryWeight == [c \in Chars |-> IndexOf(CollationTable, ToLower[c])]
TertiaryWeight == [c \in Chars |-> IF IsUpper[c] THEN 1 ELSE 0]

\* The character class [a-zA-Z0-9_] of the sanitizer regular expression.
WordChars == Range(UpperCase) \cup Range(LowerCase) \cup Range(Digits) \cup {"_"}

-----------------------------------------------------------------------------
(* String primitives of the JavaScript runtime.                            *)

\* s.indexOf(sep) + 1, for a separator that occurs in s
FirstIndexOf(s, sep) ==
    CHOOSE j \in 1..Len(s) : s[j] = sep /\ \A h \in 1..(j - 1) : s[h] # sep

RECURSIVE Split(_, _)
RECURSIVE SplitAt(_, _, _)
\* s.split(sep) for a one-character separator: never empty.
Split(s, sep) ==
    IF \A i \in 1..Len(s) : s[i] # sep THEN <<s>>
    ELSE SplitAt(s, sep, FirstIndexOf(s, sep))

\* The part before the separator at i, then the split of the rest.
SplitAt(s, sep, i) ==
    <<SubSeq(s, 1, i - 1)>> \o Split(SubSeq(s, i + 1, Len(s)), sep)

RECURSIVE Join(_, _)
\* parts.join(sep)
Join(parts, sep) ==
    IF parts = <<>> THEN <<>>
    ELSE IF Len(parts) = 1 THEN parts[1]
    ELSE parts[1] \o <<sep>> \o Join(Tail(parts), sep)

\* tag.startsWith(prefix)
startsWith(s, prefix) ==
    /\ Len(prefix) <= Len(s)
    /\ SubSeq(s, 1, Len(prefix)) = prefix

endsWith(s, suffix) ==
    /\ Len(suffix) <= Len(s)
    /\ SubSeq(s, Len(s) - Len(suffix) + 1, Len(s)) = suffix

RECURSIVE trim(_)
\* s.trim(), over the one white-space character of the tables
trim(s) ==
    IF s = <<>> THEN s
    ELSE IF s[1] = " " THEN trim(Tail(s))
    ELSE IF s[Len(s)] = " " THEN trim(SubSeq(s, 1, Len(s) - 1))
    ELSE s

RECURSIVE NatToString(_)
\* String(n) for a non-negative integer
NatToString(n) ==
    IF n < 10 THEN <<Digits[n + 1]>>
    ELSE NatToString(n \div 10) \o <<Digits[(n % 10) + 1]>>

\* String(value) for a scalar
ScalarToString(v) ==
    CASE v.k = "string" -> v.s
      [] v.k = "number" -> NatToString(v.n)
      [] v.k = "boolean" -> IF v.b THEN <<"t", "r", "u", "e">>
                                   ELSE <<"f", "a", "l", "s", "e">>
      [] v.k = "undefined" -> <<"u", "n", "d", "e", "f", "i", "n", "e", "d">>

\* String(value): an array is its elements as strings joined by ","
StringOf(v) ==
    IF v.k = "array"
    THEN Join([i \in 1..Len(v.items) |-> ScalarToString(v.items[i])], ",")
    ELSE ScalarToString(v)

\* !value is false: the value is truthy
Truthy(v) ==
    CASE v.k = "string" -> v.s # <<>>
      [] v.k = "number" -> v.n # 0
      [] v.k = "boolean" -> v.b
      [] v.k = "undefined" -> FALSE
      [] v.k = "array" -> TRUE

RECURSIVE CompareWeights(_, _, _)
\* -1, 0 or 1: a and b compared lexicographically by the weight w of their
\* characters, a proper prefix being smaller.
CompareWeights(a, b, w) ==
    IF a = <<>> /\ b = <<>> THEN 0
    ELSE IF a = <<>> THEN -1
    ELSE IF b = <<>> THEN 1
    ELSE IF w[a[1]] < w[b[1]] THEN -1
    ELSE IF w[a[1]] > w[b[1]] THEN 1
    ELSE CompareWeights(Tail(a), Tail(b), w)

\* a.localeCompare(b): primary weights of the whole strings first, then case.
localeCompare(a, b) ==
    IF CompareWeights(a, b, PrimaryWeight) # 0
    THEN CompareWeights(a, b, PrimaryWeight)
    ELSE CompareWeights(a, b, TertiaryWeight)

\* Comparison of the strings by UTF-16 code units (the < of the language).
CodeUnitCompare(a, b) == CompareWeights(a, b, CharCode)

-----------------------------------------------------------------------------
(* sanitizeTagValue                                                        *)

\* part.replace(/[^a-zA-Z0-9_]/g, "_")
ReplaceNonWord(part) ==
    [i \in 1..Len(part) |-> IF part[i] \in WordChars THEN part[i] ELSE "_"]

\* parts.map((part) => part.replace(...)).join("/")
SanitizeParts(parts) ==
    Join([i \in 1..Len(parts) |-> ReplaceNonWord(parts[i])], "/")

\* String(value).split("/").map(...).join("/")
sanitizeTagValue(value) == SanitizeParts(Split(StringOf(value), "/"))

-----------------------------------------------------------------------------
(* The working tag set: a JavaScript Set, which keeps insertion order and  *)
(* holds each tag once.                                                    *)

\* tags.add(t)
SetAdd(tags, t) == IF t \in Range(tags) THEN tags ELSE Append(tags, t)

RECURSIVE SetAddAll(_, _)
SetAddAll(tags, ts) ==
    IF ts = <<>> THEN tags ELSE SetAddAll(SetAdd(tags, Head(ts)), Tail(ts))

\* new Set(Array.from(tags).filter(keep)), keep given as the set of kept tags
SetFilter(tags, kept) == SelectSeq(tags, LAMBDA t : t \in kept)

\* Array.isArray(propertyValue) ? propertyValue : [propertyValue]
ValuesOf(propertyValue) ==
    IF propertyValue.k = "array" THEN propertyValue.items ELSE <<propertyValue>>

-----------------------------------------------------------------------------
(* Gating                                                                  *)

AnyStartsWith(tags, prefixes) ==
    \E i \in 1..Len(tags) : \E j \in 1..Len(prefixes) :
        startsWith(tags[i], prefixes[j])

\* A gate that gives way to the other list: blocked only when not required.
hasIgnoredTagYielding(tags, st) ==
    AnyStartsWith(tags, st.ignoreTags) /\ ~AnyStartsWith(tags, st.syncTags)

hasIgnoredTag(tags, st) == AnyStartsWith(tags, st.ignoreTags)

\* A gate that is open when no sync tag is configured.
hasSyncTagOrNone(tags, st) ==
    st.syncTags = <<>> \/ AnyStartsWith(tags, st.syncTags)

hasSyncTag(tags, st) == AnyStartsWith(tags, st.syncTags)

-----------------------------------------------------------------------------
(* extractName: the closure of the wikilink branch.  value.replace exists  *)
(* on strings only: a truthy number or boolean raises a TypeError.         *)

\* s.replace(/^\[\[/, ""): the first alternative of /^\[\[|\]\]$/g
StripOpening(s) ==
    IF startsWith(s, <<"[", "[">>) THEN SubSeq(s, 3, Len(s)) ELSE s

\* s.replace(/\]\]$/, ""): the second alternative
StripClosing(s) ==
    IF endsWith(s, <<"]", "]">>) THEN SubSeq(s, 1, Len(s) - 2) ELSE s

\* parts[parts.length - 1]
LastPart(parts) == parts[Len(parts)]

\* lastPart.replace(/\.md$/, "")
StripExtension(s) ==
    IF endsWith(s, <<".", "m", "d">>) THEN SubSeq(s, 1, Len(s) - 3) ELSE s

extractName(value) ==
    IF ~Truthy(value) THEN [threw |-> FALSE, name |-> <<>>]
    ELSE IF value.k # "string" THEN [threw |-> TRUE, name |-> <<>>]
    ELSE [threw |-> FALSE,
          name |-> trim(StripExtension(
                     Split(LastPart(Split(StripClosing(StripOpening(value.s)), "/")),
                           "|")[1]))]

-----------------------------------------------------------------------------
(* One rule: the retract step, then the emit step.                         *)

\* The tags a value rule can produce: sanitizeTagValue(mapping.tagValue)
MappingTags(config) ==
    {sanitizeTagValue(Str(config.valueMappings[i].tagValue)) :
        i \in 1..Len(config.valueMappings)}

\* A retract step without the dispatch on syncType: every rule retracts as a
\* wikilink rule does.
RetractStepAsWikilink(config, tags) ==
    SetFilter(tags, {t \in Range(tags) : ~startsWith(t, config.tagPrefix)})

\* "Remove existing tags for this property"
RetractStep(config, tags) ==
    IF config.syncType = "wikilink"
    THEN SetFilter(tags, {t \in Range(tags) : ~startsWith(t, config.tagPrefix)})
    ELSE IF config.syncType = "value"
    THEN SetFilter(tags, Range(tags) \ MappingTags(config))
    ELSE IF config.lastSyncedValue.k # "undefined"
    THEN SetFilter(tags, Range(tags) \ {sanitizeTagValue(config.lastSyncedValue)})
    ELSE tags

\* The names of a wikilink value: map(extractName).filter(Boolean)
ExtractNames(values) == [i \in 1..Len(values) |-> extractName(values[i])]

\* .filter(Boolean) of the names; threw when one extractName raised
FilterNames(got) ==
    [threw |-> \E i \in 1..Len(got) : got[i].threw,
     names |-> SelectSeq([i \in 1..Len(got) |-> got[i].name], LAMBDA s : s # <<>>)]

WikilinkNames(propertyValue) == FilterNames(ExtractNames(ValuesOf(propertyValue)))

\* valueMappings.find with the last match winning instead of the first.
FindMappingLast(config, value) ==
    IF \A i \in 1..Len(config.valueMappings) :
          ~(value.k = "string" /\ config.valueMappings[i].propertyValue = value.s)
    THEN 0
    ELSE CHOOSE i \in 1..Len(config.valueMappings) :
            /\ config.valueMappings[i].propertyValue = value.s
            /\ \A j \in (i + 1)..Len(config.valueMappings) :
                  config.valueMappings[j].propertyValue # value.s

\* config.valueMappings.find((m) => m.propertyValue === value): the index of
\* the first mapping strictly equal to the value, 0 when there is none.
FindMapping(config, value) ==
    IF \A i \in 1..Len(config.valueMappings) :
          ~(value.k = "string" /\ config.valueMappings[i].propertyValue = value.s)
    THEN 0
    ELSE CHOOSE i \in 1..Len(config.valueMappings) :
            /\ config.valueMappings[i].propertyValue = value.s
            /\ \A j \in 1..(i - 1) :
                  config.valueMappings[j].propertyValue # value.s

\* The tags the value branch adds, in order.
\* sanitizeTagValue(mapping.tagValue) of the values that have a mapping
MappedTags(config, found) ==
    [i \in 1..Len(found) |->
        sanitizeTagValue(Str(config.valueMappings[FindMapping(config, found[i])].tagValue))]

ValueTags(config, propertyValue) ==
    MappedTags(config,
        SelectSeq(ValuesOf(propertyValue), LAMBDA v : FindMapping(config, v) # 0))

\* value !== null && value !== undefined && value !== ""
NonEmptyValue(v) == v.k # "undefined" /\ ~(v.k = "string" /\ v.s = <<>>)

\* The tags the direct branch adds, in order.
SanitizeAll(values) == [i \in 1..Len(values) |-> sanitizeTagValue(values[i])]

DirectTags(propertyValue) ==
    IF NonEmptyValue(propertyValue)
    THEN SanitizeAll(SelectSeq(ValuesOf(propertyValue), NonEmptyValue))
    ELSE <<>>

\* "Add new tags based on sync type"
\* tags.add(`${config.tagPrefix || ""}${tagValue}`) for the names w
WikilinkEmit(config, tags, w) ==
    [threw |-> w.threw,
     tags |-> SetAddAll(tags,
                [i \in 1..Len(w.names) |->
                    config.tagPrefix \o sanitizeTagValue(Str(w.names[i]))])]

EmitStep(config, tags, propertyValue) ==
    IF config.syncType = "wikilink"
    THEN WikilinkEmit(config, tags, WikilinkNames(propertyValue))
    ELSE IF config.syncType = "value"
    THEN [threw |-> FALSE, tags |-> SetAddAll(tags, ValueTags(config, propertyValue))]
    ELSE [threw |-> FALSE, tags |-> SetAddAll(tags, DirectTags(propertyValue))]

\* One turn of the loop: retract, then emit, for rule config on propertyValue
RuleStep(config, tags, propertyValue) ==
    EmitStep(config, RetractStep(config, tags), propertyValue)

\* config.lastSyncedValue = propertyValue, at the end of the direct branch
UpdateLastSynced(configs, i, propertyValue) ==
    IF configs[i].syncType = "direct"
    THEN [configs EXCEPT ![i].lastSyncedValue = propertyValue]
    ELSE configs

RECURSIVE ApplyRules(_, _, _, _)
RECURSIVE AfterRule(_, _, _, _, _)
\* The loop over settings.propertyConfigs from rule i on.
ApplyRules(i, tags, configs, frontmatter) ==
    IF i > Len(configs) THEN [threw |-> FALSE, tags |-> tags, configs |-> configs]
    ELSE AfterRule(i, configs, frontmatter,
                   frontmatter.props[configs[i].propertyName],
                   RuleStep(configs[i], tags, frontmatter.props[configs[i].propertyName]))

\* After rule i gave e: a TypeError leaves the loop, with the lastSyncedValue
\* of the earlier direct rules already set; otherwise the loop goes on.
AfterRule(i, configs, frontmatter, propertyValue, e) ==
    IF e.threw THEN [threw |-> TRUE, tags |-> <<>>, configs |-> configs]
    ELSE ApplyRules(i + 1, e.tags, UpdateLastSynced(configs, i, propertyValue),
                    frontmatter)

-----------------------------------------------------------------------------
(* Array.prototype.sort with (a, b) => b.localeCompare(a): a stable sort.  *)

RECURSIVE InsertBy(_, _, _)
\* x inserted after every element that does not sort after it
InsertBy(sorted, x, sign) ==
    IF sorted = <<>> THEN <<x>>
    ELSE IF sign * localeCompare(x, Head(sorted)) > 0
         THEN <<x>> \o sorted
         ELSE <<Head(sorted)>> \o InsertBy(Tail(sorted), x, sign)

RECURSIVE SortBy(_, _)
SortBy(tags, sign) ==
    IF tags = <<>> THEN <<>>
    ELSE InsertBy(SortBy(SubSeq(tags, 1, Len(tags) - 1), sign), tags[Len(tags)], sign)

\* The comparator with its arguments swapped: a.localeCompare(b).
sortTagsAscending(tags) == SortBy(tags, -1)

\* Array.from(tags).sort((a, b) => b.localeCompare(a))
sortTags(tags) == SortBy(tags, 1)

-----------------------------------------------------------------------------
(* synchronizeProperties: which return was taken (ret), the returned array *)
(* and the rule list with its lastSyncedValue side effects.                *)

\* new Set<string>(frontmatter.tags || [])
NewTagSet(frontmatter) ==
    IF frontmatter.tags.present THEN SetAddAll(<<>>, frontmatter.tags.list) ELSE <<>>

\* return tags.size > 0 ? Array.from(tags).sort(...) : [], or the TypeError
RulesResult(r) ==
    IF r.threw
    THEN [ret |-> "threw", tags |-> <<>>, configs |-> r.configs]
    ELSE [ret |-> "rules",
          tags |-> IF Len(r.tags) > 0 THEN sortTags(r.tags) ELSE <<>>,
          configs |-> r.configs]

\* The two checks on the tag set, then the rules
GateAndApply(tags, frontmatter, st) ==
    IF hasIgnoredTag(tags, st)
    THEN [ret |-> "ignored", tags |-> tags, configs |-> st.propertyConfigs]
    ELSE IF ~hasSyncTag(tags, st)
    THEN [ret |-> "nosync", tags |-> tags, configs |-> st.propertyConfigs]
    ELSE RulesResult(ApplyRules(1, tags, st.propertyConfigs, frontmatter))

synchronizeProperties(frontmatter, st) ==
    GateAndApply(NewTagSet(frontmatter), frontmatter, st)

-----------------------------------------------------------------------------
(* The vault and the settings the model runs on.                           *)

source == <<"s", "o", "u", "r", "c", "e">>
source_book == <<"s", "o", "u", "r", "c", "e", "/", "b", "o", "o", "k">>
note == <<"n", "o", "t", "e">>
draft == <<"d", "r", "a", "f", "t">>
a_b == <<"a", "_", "b">>
Work == <<"W", "o", "r", "k">>
urgent == <<"u", "r", "g", "e", "n", "t">>
low == <<"l", "o", "w">>
done == <<"d", "o", "n", "e">>
wip == <<"w", "i", "p">>
late == <<"l", "a", "t", "e">>
state == <<"s", "t", "a", "t", "e">>
state_complete == <<"s", "t", "a", "t", "e", "/", "c", "o", "m", "p", "l", "e", "t", "e">>
state_active == <<"s", "t", "a", "t", "e", "/", "a", "c", "t", "i", "v", "e">>
book_prefix == <<"b", "o", "o", "k", "/">>
\* [[Projects/My Book.md|Book Alias]]
bookLink == <<"[", "[", "P", "r", "o", "j", "e", "c", "t", "s", "/", "M", "y", " ", "B", "o", "o", "k", ".", "m", "d", "|", "B", "o", "o", "k", " ", "A", "l", "i", "a", "s", "]", "]">>

Files == {"d1", "d2"}
\* vault.getMarkdownFiles()
MarkdownFiles == <<"d1", "d2">>
Fields == {"priority", "status", "author"}

\* The number of edits a user makes to the documents in one run.
MaxEdits == 1

Rule(propertyName, syncType, valueMappings, tagPrefix) ==
    [propertyName |-> propertyName, syncType |-> syncType,
     valueMappings |-> valueMappings, tagPrefix |-> tagPrefix,
     lastSyncedValue |-> Undefined]

DirectRule == Rule("priority", "direct", <<>>, <<>>)
ValueRule ==
    Rule("status", "value",
         <<[propertyValue |-> done, tagValue |-> state_complete],
           [propertyValue |-> wip, tagValue |-> state_active],
           [propertyValue |-> done, tagValue |-> late]>>,
         <<>>)
WikilinkRule == Rule("author", "wikilink", <<>>, book_prefix)
\* tagPrefix undefined: config.tagPrefix || ""
WikilinkRuleNoPrefix == Rule("author", "wikilink", <<>>, <<>>)

Settings(propertyConfigs, syncTags, ignoreTags) ==
    [propertyConfigs |-> propertyConfigs, syncTags |-> syncTags,
     ignoreTags |-> ignoreTags]

NoTags == [present |-> FALSE, list |-> <<>>]
Tags(list) == [present |-> TRUE, list |-> list]

\* The tags fields a user gives a document.
TagFields ==
    { NoTags, Tags(<<>>), Tags(<<note>>), Tags(<<source_book>>),
      Tags(<<note, source_book, Work>>), Tags(<<source_book, draft>>),
      Tags(<<source_book, a_b>>), Tags(<<state_complete>>) }

\* The values a user gives a field.
FieldValues(f) ==
    CASE f = "priority" ->
            { Undefined, Str(urgent), Str(low), Str(<<>>), Num(7),
              Arr(<<Str(<<"a">>), Str(<<"b">>)>>) }
      [] f = "status" ->
            { Undefined, Str(done), Str(wip), Arr(<<Str(wip), Str(done)>>) }
      [] f = "author" ->
            { Undefined, Str(bookLink), Num(7), Bool(FALSE),
              Arr(<<Str(bookLink), Num(0)>>) }

\* The fields the configured rules read.
RuleFields(st) ==
    {st.propertyConfigs[i].propertyName : i \in 1..Len(st.propertyConfigs)}

\* The parsed frontmatter of a document
Frontmatter(tags, priority, status, author) ==
    [tags |-> tags,
     props |-> [f \in Fields |-> CASE f = "priority" -> priority
                                   [] f = "status" -> status
                                   [] f = "author" -> author]]

Vault(st, d1, d2) ==
    [settings |-> st, docs |-> [d \in Files |-> IF d = "d1" THEN d1 ELSE d2]]

\* The settings loadSettings finds and the documents of the vault when the
\* plugin loads.  DEFAULT_SETTINGS has no sync tag.
Vaults ==
    { Vault(Settings(<<DirectRule>>, <<source>>, <<draft>>),
            Frontmatter(Tags(<<source_book, a_b>>), Str(urgent), Undefined, Undefined),
            Frontmatter(Tags(<<source_book>>),
                        Arr(<<Str(<<"a">>), Str(<<"b">>)>>), Undefined, Undefined)),
      Vault(Settings(<<DirectRule>>, <<>>, <<>>),
            Frontmatter(Tags(<<source_book>>), Str(urgent), Undefined, Undefined),
            Frontmatter(NoTags, Str(low), Undefined, Undefined)),
      Vault(Settings(<<ValueRule>>, <<source>>, <<>>),
            Frontmatter(Tags(<<>>), Undefined, Str(done), Undefined),
            Frontmatter(Tags(<<source_book>>), Undefined, Str(done), Undefined)),
      Vault(Settings(<<ValueRule>>, <<state>>, <<>>),
            Frontmatter(Tags(<<state_complete>>), Undefined, Str(wip), Undefined),
            Frontmatter(Tags(<<state_complete>>), Undefined, Undefined, Undefined)),
      Vault(Settings(<<WikilinkRule, DirectRule>>, <<source>>, <<draft>>),
            Frontmatter(Tags(<<source_book>>), Str(urgent), Undefined, Num(7)),
            Frontmatter(Tags(<<source_book, draft>>), Str(low), Undefined, Str(bookLink))),
      Vault(Settings(<<DirectRule, ValueRule, WikilinkRule>>, <<source>>, <<draft>>),
            Frontmatter(Tags(<<note, source_book, Work>>), Str(urgent), Str(done),
                        Str(bookLink)),
            Frontmatter(Tags(<<note>>), Str(low), Undefined, Undefined)),
      Vault(Settings(<<WikilinkRuleNoPrefix>>, <<source>>, <<>>),
            Frontmatter(Tags(<<source_book>>), Undefined, Undefined, Undefined),
            Frontmatter(Tags(<<source_book, note>>), Undefined, Undefined,
                        Str(bookLink))) }

-----------------------------------------------------------------------------
(* History: the last call of synchronizeProperties and the one before.     *)
(* via is "handler" for a call made by syncFrontmatter or                  *)
(* syncAllFrontmatter, whose fileTags is the tags field of the file after  *)
(* the handler, and "call" for a direct call.                              *)

CallRecord(via, d, frontmatter, st, r, fileTags) ==
    [via |-> via, doc |-> d, frontmatter |-> frontmatter,
     inConfigs |-> st.propertyConfigs, ret |-> r.ret, out |-> r.tags,
     outConfigs |-> r.configs, fileTags |-> fileTags]

\* What is kept of the call before the last one.
Summary(c) ==
    [doc |-> c.doc, props |-> c.frontmatter.props, ret |-> c.ret, out |-> c.out]

NoCall ==
    [via |-> "none", doc |-> "none",
     frontmatter |-> [tags |-> NoTags, props |-> [f \in Fields |-> Undefined]],
     inConfigs |-> <<>>, ret |-> "none", out |-> <<>>, outConfigs |-> <<>>,
     fileTags |-> NoTags]

-----------------------------------------------------------------------------
(* The handlers.                                                           *)

\* A write that removes the tags field when the list is empty.
processFrontMatterOmitEmpty(frontmatter, updatedTags) ==
    [frontmatter EXCEPT !.tags = IF updatedTags = <<>> THEN NoTags
                                 ELSE Tags(updatedTags)]

\* fileManager.processFrontMatter(file, (fm) => { fm.tags = updatedTags })
processFrontMatter(frontmatter, updatedTags) ==
    [frontmatter EXCEPT !.tags = Tags(updatedTags)]

\* JSON.stringify(frontmatter.tags) !== JSON.stringify(updatedTags), when
\* synchronizeProperties returned
Changed(frontmatter, r) == r.ret # "threw" /\ frontmatter.tags.list # r.tags

\* The frontmatter of the file after the handler
AfterSync(frontmatter, r) ==
    IF Changed(frontmatter, r) THEN processFrontMatter(frontmatter, r.tags)
    ELSE frontmatter

\* The state w = [docs, settings, last, prev, timeout] after the handler got
\* r from synchronizeProperties on file d.  A write is a modify event of the
\* file, which arms the debounce timer for it.
AfterCall(d, w, frontmatter, r) ==
    [docs |-> [w.docs EXCEPT ![d] = AfterSync(frontmatter, r)],
     settings |-> [w.settings EXCEPT !.propertyConfigs = r.configs],
     last |-> CallRecord("handler", d, frontmatter, w.settings, r,
                         AfterSync(frontmatter, r).tags),
     prev |-> Summary(w.last),
     timeout |-> IF Changed(frontmatter, r) THEN d ELSE w.timeout]

\* The body shared by syncFrontmatter and the loop of syncAllFrontmatter.
SyncFile(d, w) ==
    IF ~w.docs[d].tags.present THEN w
    ELSE IF ~AnyStartsWith(w.docs[d].tags.list, w.settings.syncTags) THEN w
    ELSE AfterCall(d, w, w.docs[d], synchronizeProperties(w.docs[d], w.settings))

RECURSIVE SyncAllFrom(_, _)
\* for (const file of markdownFiles) { try { ... } catch { console.error } }
SyncAllFrom(i, w) ==
    IF i > Len(MarkdownFiles) THEN w
    ELSE SyncAllFrom(i + 1, SyncFile(MarkdownFiles[i], w))

\* The state the handlers start from, the timer being t
Here(t) == [docs |-> docs, settings |-> settings, last |-> last, prev |-> prev,
            timeout |-> t]

\* The handler ends in w.
Becomes(w) ==
    /\ docs' = w.docs
    /\ settings' = w.settings
    /\ last' = w.last
    /\ prev' = w.prev
    /\ timeout' = w.timeout

Init ==
    /\ \E v \in Vaults : settings = v.settings /\ docs = v.docs
    /\ timeout = "none"
    /\ edits = 0
    /\ last = NoCall
    /\ prev = Summary(NoCall)

\* The user changes a field of a document; the vault's modify event arms the
\* debounce timer for that file (debounceSyncFrontmatter).
ModifyProperty(d, f, v) ==
    /\ edits < MaxEdits
    /\ f \in RuleFields(settings)
    /\ docs[d].props[f] # v
    /\ docs' = [docs EXCEPT ![d].props[f] = v]
    /\ timeout' = d
    /\ edits' = edits + 1
    /\ UNCHANGED <<settings, last, prev>>

\* The user changes the tags of a document.
ModifyTags(d, tf) ==
    /\ edits < MaxEdits
    /\ docs[d].tags # tf
    /\ docs' = [docs EXCEPT ![d].tags = tf]
    /\ timeout' = d
    /\ edits' = edits + 1
    /\ UNCHANGED <<settings, last, prev>>

\* The debounce timer fires: syncFrontmatter(file).  A write is a modify
\* event of the same file, which arms the timer again.
syncFrontmatter ==
    /\ timeout # "none"
    /\ Becomes(SyncFile(timeout, Here("none")))
    /\ UNCHANGED edits

\* The command "Sync all frontmatter".
syncAllFrontmatter ==
    /\ Becomes(SyncAllFrom(1, Here(timeout)))
    /\ UNCHANGED edits

\* The engine's entry point called on the parsed frontmatter of a document;
\* the result goes to the caller and the file is not written.
Returns(d, r) ==
    /\ settings' = [settings EXCEPT !.propertyConfigs = r.configs]
    /\ last' = CallRecord("call", d, docs[d], settings, r, docs[d].tags)
    /\ prev' = Summary(last)

Reconcile(d) ==
    /\ Returns(d, synchronizeProperties(docs[d], settings))
    /\ UNCHANGED <<docs, timeout, edits>>

Next ==
    \/ \E d \in Files : \E f \in Fields : \E v \in FieldValues(f) :
          ModifyProperty(d, f, v)
    \/ \E d \in Files : \E tf \in TagFields : ModifyTags(d, tf)
    \/ syncFrontmatter
    \/ syncAllFrontmatter
    \/ \E d \in Files : Reconcile(d)

Spec == Init /\ [][Next]_vars

-----------------------------------------------------------------------------
(* Properties.  They speak of the last call of synchronizeProperties:      *)
(* its input (last.frontmatter, last.inConfigs), the return it took        *)
(* (last.ret), the array it returned (last.out) and the rules after it     *)
(* (last.outConfigs).                                                      *)

Called == last.ret # "none"
Returned(ret) == ret \in {"ignored", "nosync", "rules"}
InTags(c) == c.frontmatter.tags.list
Blocked(c) == AnyStartsWith(InTags(c), settings.ignoreTags)
Required(c) == AnyStartsWith(InTags(c), settings.syncTags)
PassesGating(c) == ~Blocked(c) /\ Required(c)
RuleIndexes(c, syncType) ==
    {i \in 1..Len(c.inConfigs) : c.inConfigs[i].syncType = syncType}
SingleRule(syncType) ==
    /\ Len(settings.propertyConfigs) = 1
    /\ settings.propertyConfigs[1].syncType = syncType
Elements(v) == IF v.k = "array" THEN Range(v.items) ELSE {v}
\* sanitize(e) for every non-empty element e of the value v
EmittedFor(v) ==
    {sanitizeTagValue(e) : e \in {x \in Elements(v) : x.k # "undefined" /\ x # Str(<<>>)}}
Descending(seq, cmp(_, _)) ==
    \A i \in 1..Len(seq) : \A j \in 1..Len(seq) : i < j => cmp(seq[i], seq[j]) > 0

\* Sanity: the rules in force are those the last call left.
TypeOK ==
    /\ timeout \in Files \cup {"none"}
    /\ edits \in 0..MaxEdits
    /\ Called => settings.propertyConfigs = last.outConfigs
    /\ \A d \in Files : docs[d].tags.present \/ docs[d].tags.list = <<>>

\* C1 (as claimed): a second call on the output of the first, on the same
\* document with the same metadata and the rules as the first call left them,
\* returns the same tag sequence as the first.
C1_Idempotence ==
    ( /\ Returned(last.ret) /\ Returned(prev.ret)
      /\ last.doc = prev.doc
      /\ last.frontmatter.props = prev.props
      /\ InTags(last) = prev.out )
    => last.out = prev.out

\* The same, when no direct rule reads an array.
C1_IdempotenceOnPlainValues ==
    ( /\ Returned(last.ret) /\ Returned(prev.ret)
      /\ last.doc = prev.doc
      /\ last.frontmatter.props = prev.props
      /\ InTags(last) = prev.out
      /\ \A i \in RuleIndexes(last, "direct") :
            prev.props[last.inConfigs[i].propertyName].k # "array" )
    => last.out = prev.out

\* C2 (as claimed): with one direct rule on field f, in two successive calls
\* on a document that both pass gating, the second on the output of the first,
\* the second result holds sanitize(e) for every non-empty element e of the new
\* value v2, holds no tag the first call emitted for v1 that v2 does not emit,
\* and leaves lastSyncedValue = v2.
C2_DirectRetraction ==
    ( /\ SingleRule("direct")
      /\ last.ret = "rules" /\ prev.ret = "rules"
      /\ last.doc = prev.doc
      /\ InTags(last) = prev.out )
    => LET f == settings.propertyConfigs[1].propertyName
           v1 == prev.props[f]
           v2 == last.frontmatter.props[f]
       IN  /\ EmittedFor(v2) \subseteq Range(last.out)
           /\ (EmittedFor(v1) \ EmittedFor(v2)) \cap Range(last.out) = {}
           /\ last.outConfigs[1].lastSyncedValue = v2

\* The same, when the earlier value v1 is no array.
C2_DirectRetractionOfScalar ==
    ( /\ SingleRule("direct")
      /\ last.ret = "rules" /\ prev.ret = "rules"
      /\ last.doc = prev.doc
      /\ InTags(last) = prev.out
      /\ prev.props[settings.propertyConfigs[1].propertyName].k # "array" )
    => LET f == settings.propertyConfigs[1].propertyName
           v1 == prev.props[f]
           v2 == last.frontmatter.props[f]
       IN  /\ EmittedFor(v2) \subseteq Range(last.out)
           /\ (EmittedFor(v1) \ EmittedFor(v2)) \cap Range(last.out) = {}
           /\ last.outConfigs[1].lastSyncedValue = v2

\* The tags of the first pair whose fieldValue equals an element of x.
FirstPairTags(config, x) ==
    LET pairs == config.valueMappings
        first(e) == {i \in 1..Len(pairs) :
                        /\ e = Str(pairs[i].propertyValue)
                        /\ \A j \in 1..(i - 1) : e # Str(pairs[j].propertyValue)}
    IN  {sanitizeTagValue(Str(pairs[i].tagValue)) :
            i \in UNION {first(e) : e \in Elements(x)}}
\* T minus every sanitize(tagValue) of the pairs, plus the first pair's tag
EnumeratedResult(c) ==
    LET config == c.inConfigs[1]
        x == c.frontmatter.props[config.propertyName]
    IN  (Range(InTags(c)) \ {sanitizeTagValue(Str(config.valueMappings[i].tagValue)) :
                                i \in 1..Len(config.valueMappings)})
            \cup FirstPairTags(config, x)

\* C3 (as claimed): with one enumerated rule, every call returns the current
\* tags minus the rule's tags plus the tag of the first matching pair, also
\* when the current tags are empty.
C3_Original ==
    (Called /\ SingleRule("value")) => Range(last.out) = EnumeratedResult(last)

\* C3 (amended): with one enumerated rule, a call that passes gating returns
\* the current tags minus the rule's tags plus the tag of the first matching
\* pair; a call that does not pass gating (empty tags, no sync tag) returns the
\* current tags unchanged.
C3_EnumeratedRoundTrip ==
    (Called /\ SingleRule("value")) =>
        IF PassesGating(last)
        THEN last.ret = "rules" /\ Range(last.out) = EnumeratedResult(last)
        ELSE Returned(last.ret) /\ last.out = InTags(last)

\* status = wip on tags [state/complete], under syncTags [state], gives
\* [state/active]; the pair (done -> late) is shadowed by (done -> state/complete).
C3_Witness ==
    /\ Called /\ SingleRule("value")
    /\ InTags(last) = <<state_complete>>
    /\ last.frontmatter.props["status"] = Str(wip)
    /\ last.out = <<state_active>>

\* C4: when a current tag starts with an ignoreTags prefix the call returns
\* the current tags, changes no lastSyncedValue and the file keeps its tags,
\* even if another tag starts with a syncTags prefix.
C4_GatingPrecedence ==
    (Called /\ Blocked(last)) =>
        /\ Returned(last.ret) /\ last.ret # "rules"
        /\ last.out = InTags(last)
        /\ last.outConfigs = last.inConfigs
        /\ last.fileTags = last.frontmatter.tags

\* A blocked call whose tags also match syncTags and whose direct rule would
\* have had a value to record.
C4_Witness ==
    /\ Called /\ Blocked(last) /\ Required(last)
    /\ \E i \in RuleIndexes(last, "direct") :
          last.frontmatter.props[last.inConfigs[i].propertyName]
              # last.inConfigs[i].lastSyncedValue

\* C5: the rules are applied only if a current tag starts with a syncTags
\* prefix; otherwise (no such tag, no syncTags, no tags) the call returns the
\* current tags and changes no lastSyncedValue; an unblocked call on tags that
\* match does go through the rules.
C5_RequireGating ==
    Called =>
        /\ ~Required(last) =>
              /\ Returned(last.ret) /\ last.ret # "rules"
              /\ last.out = InTags(last)
              /\ last.outConfigs = last.inConfigs
              /\ last.fileTags = last.frontmatter.tags
        /\ last.ret \in {"rules", "threw"} <=> PassesGating(last)

\* tags [note] under syncTags [source], with a value the direct rule would
\* have recorded.
C5_Witness ==
    /\ Called /\ ~Required(last)
    /\ settings.syncTags = <<source>>
    /\ InTags(last) = <<note>>
    /\ \E i \in RuleIndexes(last, "direct") :
          last.frontmatter.props[last.inConfigs[i].propertyName]
              # last.inConfigs[i].lastSyncedValue

\* C6 (as claimed): when the rules leave no tag, the document ends without a
\* tags field.
C6_Original ==
    (last.via = "handler" /\ last.ret = "rules" /\ last.out = <<>>)
        => ~last.fileTags.present

\* C6 (amended): when the rules leave no tag, the result is the empty list and
\* the handler writes it: the document keeps a tags field, holding [].
C6_EmptyResultIsEmptyList ==
    (last.via = "handler" /\ last.ret = "rules" /\ Range(last.out) = {})
        => last.fileTags = Tags(<<>>)

C6_Witness ==
    /\ last.via = "handler" /\ last.ret = "rules" /\ last.out = <<>>
    /\ InTags(last) # <<>>

\* C7 (as claimed): a non-empty result is in strictly descending
\* lexicographic order of the tag strings (by code units).
C7_Original ==
    (last.ret = "rules" /\ last.out # <<>>) => Descending(last.out, CodeUnitCompare)

\* C7 (amended): a non-empty result is in strictly descending order of
\* localeCompare, hence holds each tag once, whatever the order of the input.
C7_DescendingLocaleOrder ==
    (last.ret = "rules" /\ last.out # <<>>) => Descending(last.out, localeCompare)

\* A result of three tags or more in which the two orders disagree.
C7_Witness ==
    /\ last.ret = "rules" /\ Len(last.out) >= 3
    /\ \E i, j \in 1..Len(last.out) :
          /\ localeCompare(last.out[i], last.out[j]) > 0
          /\ CodeUnitCompare(last.out[i], last.out[j]) < 0

\* C8 (as claimed): synchronizeProperties never raises an error.
C8_Totality == last.ret # "threw"

\* The current tag t is outside the reach of every rule's retract step.
Unrelated(c, t) ==
    \A i \in 1..Len(c.inConfigs) :
        LET config == c.inConfigs[i]
        IN  CASE config.syncType = "wikilink" -> ~startsWith(t, config.tagPrefix)
              [] config.syncType = "value" ->
                    \A m \in Range(config.valueMappings) :
                        t # sanitizeTagValue(Str(m.tagValue))
              [] config.syncType = "direct" ->
                    config.lastSyncedValue.k # "undefined"
                        => t # sanitizeTagValue(config.lastSyncedValue)

\* C9: a call that passes gating keeps every current tag that starts with no
\* wikilink rule's prefix, is no value rule's tag and is not the tag of a
\* direct rule's lastSyncedValue.
C9_UnrelatedTagsPreserved ==
    last.ret = "rules" =>
        \A t \in Range(InTags(last)) : Unrelated(last, t) => t \in Range(last.out)

\* A call that kept an unrelated tag and retracted a related one.
C9_Witness ==
    /\ last.ret = "rules"
    /\ \E t \in Range(InTags(last)) : Unrelated(last, t)
    /\ \E t \in Range(InTags(last)) : ~Unrelated(last, t) /\ t \notin Range(last.out)

\* C10 (as claimed): after a call that passes gating every direct rule's
\* lastSyncedValue is its field's value in the document of the call; after
\* any other call the rules are unchanged.
C10_SharedMemory ==
    Called =>
        IF PassesGating(last)
        THEN \A i \in RuleIndexes(last, "direct") :
                last.outConfigs[i].lastSyncedValue
                    = last.frontmatter.props[last.inConfigs[i].propertyName]
        ELSE last.outConfigs = last.inConfigs

\* The same of the calls that return.
C10_SharedMemoryOnReturn ==
    Returned(last.ret) =>
        IF PassesGating(last)
        THEN \A i \in RuleIndexes(last, "direct") :
                last.outConfigs[i].lastSyncedValue
                    = last.frontmatter.props[last.inConfigs[i].propertyName]
        ELSE last.outConfigs = last.inConfigs

=============================================================================
